---- MODULE Spec2Model ----
(***************************************************************************)
(* Model of the fixed-width symbol bit packer (compress/bytepacker.h) and  *)
(* of the weight column that stores one scale plus a packed symbol block   *)
(* per cell (offringastman/offringaweightcol.cpp).                         *)
(*                                                                         *)
(* Buffers are functions from 0-based offsets to values, as the C++ code   *)
(* addresses them through pointers.  A byte is a value in 0..255; every    *)
(* store through an unsigned char* is reduced modulo 256.                  *)
(***************************************************************************)
EXTENDS Integers, Sequences, FiniteSets, TLC

\* ------------------------------------------------------------------ bounds
\* Largest symbolCount handed to the width-specific packers.
MaxCount == 5
\* Number of rows of the column.
MaxRow == 2
\* Largest extent of the last axis of the cell shape.
MaxDim == 3

\* ------------------------------------------------------- machine arithmetic
RECURSIVE Pow2(_)
Pow2(k) == IF k = 0 THEN 1 ELSE 2 * Pow2(k - 1)

\* a & b on non-negative integers
RECURSIVE BitAnd(_, _)
BitAnd(a, b) ==
  IF a = 0 \/ b = 0 THEN 0
  ELSE (IF a % 2 = 1 /\ b % 2 = 1 THEN 1 ELSE 0) + 2 * BitAnd(a \div 2, b \div 2)

\* a | b on non-negative integers
RECURSIVE BitOr(_, _)
BitOr(a, b) ==
  IF a = 0 THEN b
  ELSE IF b = 0 THEN a
  ELSE (IF a % 2 = 1 \/ b % 2 = 1 THEN 1 ELSE 0) + 2 * BitOr(a \div 2, b \div 2)

\* a << k and a >> k
Shl(a, k) == a * Pow2(k)
Shr(a, k) == a \div Pow2(k)

\* conversion of an unsigned value to unsigned char
ToByte(v) == v % 256

\* ceil(symbolCount * bitCount / 8)
PackedSize(bitCount, symbolCount) == (symbolCount * bitCount + 7) \div 8

\* ------------------------------------------------- pointer-walking helpers
\* A packing run: d the destination bytes, wr the offsets stored to so far,
\* dp the offset dest points at, sp the offset symbolBuffer points at.
PackStart(dest) == [d |-> dest, wr |-> {}, dp |-> 0, sp |-> 0]

\* *dest = v
DestAssign(st, v) ==
  [st EXCEPT !.d = [@ EXCEPT ![st.dp] = ToByte(v)], !.wr = @ \cup {st.dp}]

\* *dest |= v
DestOr(st, v) ==
  [st EXCEPT !.d = [@ EXCEPT ![st.dp] = ToByte(BitOr(@, v))], !.wr = @ \cup {st.dp}]

\* ++dest
DestInc(st) == [st EXCEPT !.dp = @ + 1]

\* ++symbolBuffer
SymInc(st) == [st EXCEPT !.sp = @ + 1]

\* An unpacking run: s the symbol slots, wr the slots stored to so far,
\* sp the slot symbolBuffer points at, pp the offset packedBuffer points at.
UnpackStart(symbols) == [s |-> symbols, wr |-> {}, sp |-> 0, pp |-> 0]

\* *symbolBuffer = v
SymAssign(st, v) ==
  [st EXCEPT !.s = [@ EXCEPT ![st.sp] = v], !.wr = @ \cup {st.sp}]

\* *symbolBuffer |= v
SymOr(st, v) ==
  [st EXCEPT !.s = [@ EXCEPT ![st.sp] = BitOr(@, v)], !.wr = @ \cup {st.sp}]

\* ++packedBuffer
PackedInc(st) == [st EXCEPT !.pp = @ + 1]

\* ------------------------------------------------------------------ pack6
\* pack6Group taking bits 5-6 where bits 3-6 of the second symbol belong
pack6GroupWrongMask(st, symbolBuffer) ==
  LET a1 == SymInc(DestAssign(st, symbolBuffer[st.sp]))
      a2 == DestInc(DestOr(a1, Shl(BitAnd(symbolBuffer[a1.sp], 3), 6)))
      a3 == SymInc(DestAssign(a2, Shr(BitAnd(symbolBuffer[a2.sp], 48), 2)))
      a4 == DestInc(DestOr(a3, Shl(BitAnd(symbolBuffer[a3.sp], 15), 4)))
      a5 == SymInc(DestAssign(a4, Shr(BitAnd(symbolBuffer[a4.sp], 48), 4)))
      a6 == DestOr(a5, Shl(symbolBuffer[a5.sp], 2))
  IN  DestInc(SymInc(a6))

\* One pass of the loop body: four symbols into three bytes.
pack6Group(st, symbolBuffer) ==
  LET a1 == SymInc(DestAssign(st, symbolBuffer[st.sp]))
      a2 == DestInc(DestOr(a1, Shl(BitAnd(symbolBuffer[a1.sp], 3), 6)))
      a3 == SymInc(DestAssign(a2, Shr(BitAnd(symbolBuffer[a2.sp], 60), 2)))
      a4 == DestInc(DestOr(a3, Shl(BitAnd(symbolBuffer[a3.sp], 15), 4)))
      a5 == SymInc(DestAssign(a4, Shr(BitAnd(symbolBuffer[a4.sp], 48), 4)))
      a6 == DestOr(a5, Shl(symbolBuffer[a5.sp], 2))
  IN  DestInc(SymInc(a6))

RECURSIVE pack6Loop(_, _, _, _)
pack6Loop(st, symbolBuffer, i, limit) ==
  IF i = limit THEN st
  ELSE pack6Loop(pack6Group(st, symbolBuffer), symbolBuffer, i + 1, limit)

\* The partial group after the loop: 1, 2 or 3 left-over symbols.
pack6Tail(st, symbolBuffer, symbolCount, limit) ==
  LET pos == limit * 4 IN
  IF pos < symbolCount
  THEN LET t1 == DestAssign(st, symbolBuffer[st.sp]) IN
       IF pos + 1 < symbolCount
       THEN LET t2 == SymInc(t1)
                t3 == DestInc(DestOr(t2, Shl(BitAnd(symbolBuffer[t2.sp], 3), 6)))
                t4 == DestAssign(t3, Shr(BitAnd(symbolBuffer[t3.sp], 60), 2))
            IN  IF pos + 2 < symbolCount
                THEN LET t5 == SymInc(t4)
                         t6 == DestInc(DestOr(t5, Shl(BitAnd(symbolBuffer[t5.sp], 15), 4)))
                     IN  DestAssign(t6, Shr(BitAnd(symbolBuffer[t6.sp], 48), 4))
                ELSE t4
       ELSE t1
  ELSE st

pack6(dest, symbolBuffer, symbolCount) ==
  LET limit == symbolCount \div 4
  IN  pack6Tail(pack6Loop(PackStart(dest), symbolBuffer, 0, limit),
                symbolBuffer, symbolCount, limit)

\* ------------------------------------------------------------------ pack4
pack4Group(st, symbolBuffer) ==
  LET a1 == SymInc(DestAssign(st, symbolBuffer[st.sp]))
      a2 == DestOr(a1, Shl(symbolBuffer[a1.sp], 4))
  IN  DestInc(SymInc(a2))

RECURSIVE pack4Loop(_, _, _, _)
pack4Loop(st, symbolBuffer, i, limit) ==
  IF i = limit THEN st
  ELSE pack4Loop(pack4Group(st, symbolBuffer), symbolBuffer, i + 1, limit)

\* pack4Tail merging the symbol into the byte instead of storing the byte
pack4TailKeepsUpper(st, symbolBuffer, symbolCount, limit) ==
  IF limit * 2 # symbolCount
  THEN DestAssign(st, BitOr(BitAnd(st.d[st.dp], 240), symbolBuffer[st.sp]))
  ELSE st

pack4Tail(st, symbolBuffer, symbolCount, limit) ==
  IF limit * 2 # symbolCount
  THEN DestAssign(st, symbolBuffer[st.sp])
  ELSE st

pack4(dest, symbolBuffer, symbolCount) ==
  LET limit == symbolCount \div 2
  IN  pack4Tail(pack4Loop(PackStart(dest), symbolBuffer, 0, limit),
                symbolBuffer, symbolCount, limit)

\* ------------------------------------------------------------------ pack8
RECURSIVE pack8Loop(_, _, _, _)
pack8Loop(st, symbolBuffer, i, symbolCount) ==
  IF i = symbolCount THEN st
  ELSE pack8Loop([st EXCEPT !.d = [@ EXCEPT ![i] = ToByte(symbolBuffer[i])],
                            !.wr = @ \cup {i}],
                 symbolBuffer, i + 1, symbolCount)

pack8(dest, symbolBuffer, symbolCount) ==
  pack8Loop(PackStart(dest), symbolBuffer, 0, symbolCount)

\* ----------------------------------------------------------------- pack12
pack12Group(st, symbolBuffer) ==
  LET a1 == DestInc(DestAssign(st, BitAnd(symbolBuffer[st.sp], 255)))
      a2 == SymInc(DestAssign(a1, Shr(BitAnd(symbolBuffer[a1.sp], 3840), 8)))
      a3 == DestInc(DestOr(a2, Shl(BitAnd(symbolBuffer[a2.sp], 15), 4)))
      a4 == DestAssign(a3, Shr(BitAnd(symbolBuffer[a3.sp], 4080), 4))
  IN  DestInc(SymInc(a4))

RECURSIVE pack12Loop(_, _, _, _)
pack12Loop(st, symbolBuffer, i, limit) ==
  IF i = limit THEN st
  ELSE pack12Loop(pack12Group(st, symbolBuffer), symbolBuffer, i + 1, limit)

\* pack12Tail storing a third byte for the leftover symbol
pack12TailThreeBytes(st, symbolBuffer, symbolCount, limit) ==
  IF limit * 2 # symbolCount
  THEN LET t1 == DestInc(DestAssign(st, BitAnd(symbolBuffer[st.sp], 255)))
           t2 == DestInc(DestAssign(t1, Shr(BitAnd(symbolBuffer[t1.sp], 3840), 8)))
       IN  DestAssign(t2, 0)
  ELSE st

\* pack12Tail or-ing the top four bits into the last byte
pack12TailOrsLast(st, symbolBuffer, symbolCount, limit) ==
  IF limit * 2 # symbolCount
  THEN LET t1 == DestInc(DestAssign(st, BitAnd(symbolBuffer[st.sp], 255)))
       IN  DestOr(t1, Shr(BitAnd(symbolBuffer[t1.sp], 3840), 8))
  ELSE st

pack12Tail(st, symbolBuffer, symbolCount, limit) ==
  IF limit * 2 # symbolCount
  THEN LET t1 == DestInc(DestAssign(st, BitAnd(symbolBuffer[st.sp], 255)))
       IN  DestAssign(t1, Shr(BitAnd(symbolBuffer[t1.sp], 3840), 8))
  ELSE st

pack12(dest, symbolBuffer, symbolCount) ==
  LET limit == symbolCount \div 2
  IN  pack12Tail(pack12Loop(PackStart(dest), symbolBuffer, 0, limit),
                 symbolBuffer, symbolCount, limit)

\* ------------------------------------------------------------------- pack
\* pack with a default branch that packs bytes
packDefaultsTo8(bitCount, dest, symbolBuffer, symbolCount) ==
  CASE bitCount = 4  -> pack4(dest, symbolBuffer, symbolCount)
    [] bitCount = 6  -> pack6(dest, symbolBuffer, symbolCount)
    [] bitCount = 12 -> pack12(dest, symbolBuffer, symbolCount)
    [] OTHER         -> pack8(dest, symbolBuffer, symbolCount)

\* pack forwarding width 6 to pack4
packSixAsFour(bitCount, dest, symbolBuffer, symbolCount) ==
  CASE bitCount = 4  -> pack4(dest, symbolBuffer, symbolCount)
    [] bitCount = 6  -> pack4(dest, symbolBuffer, symbolCount)
    [] bitCount = 8  -> pack8(dest, symbolBuffer, symbolCount)
    [] bitCount = 12 -> pack12(dest, symbolBuffer, symbolCount)
    [] OTHER         -> PackStart(dest)

\* The switch of BytePacker::pack; it has no default branch.
pack(bitCount, dest, symbolBuffer, symbolCount) ==
  CASE bitCount = 4  -> pack4(dest, symbolBuffer, symbolCount)
    [] bitCount = 6  -> pack6(dest, symbolBuffer, symbolCount)
    [] bitCount = 8  -> pack8(dest, symbolBuffer, symbolCount)
    [] bitCount = 12 -> pack12(dest, symbolBuffer, symbolCount)
    [] OTHER         -> PackStart(dest)

\* ---------------------------------------------------------------- unpack6
unpack6Group(st, packedBuffer) ==
  LET a1 == SymInc(SymAssign(st, BitAnd(packedBuffer[st.pp], 63)))
      a2 == PackedInc(SymAssign(a1, Shr(BitAnd(packedBuffer[a1.pp], 192), 6)))
      a3 == SymInc(SymOr(a2, Shl(BitAnd(packedBuffer[a2.pp], 15), 2)))
      a4 == PackedInc(SymAssign(a3, Shr(BitAnd(packedBuffer[a3.pp], 240), 4)))
      a5 == SymInc(SymOr(a4, Shl(BitAnd(packedBuffer[a4.pp], 3), 4)))
      a6 == SymAssign(a5, Shr(BitAnd(packedBuffer[a5.pp], 252), 2))
  IN  SymInc(PackedInc(a6))

RECURSIVE unpack6Loop(_, _, _, _)
unpack6Loop(st, packedBuffer, i, limit) ==
  IF i = limit THEN st
  ELSE unpack6Loop(unpack6Group(st, packedBuffer), packedBuffer, i + 1, limit)

unpack6Tail(st, packedBuffer, symbolCount, limit) ==
  LET pos == limit * 4 IN
  IF pos < symbolCount
  THEN LET t1 == SymAssign(st, BitAnd(packedBuffer[st.pp], 63)) IN
       IF pos + 1 < symbolCount
       THEN LET t2 == SymInc(t1)
                t3 == PackedInc(SymAssign(t2, Shr(BitAnd(packedBuffer[t2.pp], 192), 6)))
                t4 == SymOr(t3, Shl(BitAnd(packedBuffer[t3.pp], 15), 2))
            IN  IF pos + 2 < symbolCount
                THEN LET t5 == SymInc(t4)
                         t6 == PackedInc(SymAssign(t5, Shr(BitAnd(packedBuffer[t5.pp], 240), 4)))
                     IN  SymOr(t6, Shl(BitAnd(packedBuffer[t6.pp], 3), 4))
                ELSE t4
       ELSE t1
  ELSE st

unpack6(symbolBuffer, packedBuffer, symbolCount) ==
  LET limit == symbolCount \div 4
  IN  unpack6Tail(unpack6Loop(UnpackStart(symbolBuffer), packedBuffer, 0, limit),
                  packedBuffer, symbolCount, limit)

\* ---------------------------------------------------------------- unpack4
unpack4Group(st, packedBuffer) ==
  LET a1 == SymInc(SymAssign(st, BitAnd(packedBuffer[st.pp], 15)))
      a2 == SymAssign(a1, Shr(BitAnd(packedBuffer[a1.pp], 240), 4))
  IN  PackedInc(SymInc(a2))

RECURSIVE unpack4Loop(_, _, _, _)
unpack4Loop(st, packedBuffer, i, limit) ==
  IF i = limit THEN st
  ELSE unpack4Loop(unpack4Group(st, packedBuffer), packedBuffer, i + 1, limit)

\* unpack4Tail run for even counts too
unpack4TailAlways(st, packedBuffer, symbolCount, limit) ==
  SymAssign(st, BitAnd(packedBuffer[st.pp], 15))

unpack4Tail(st, packedBuffer, symbolCount, limit) ==
  IF limit * 2 # symbolCount
  THEN SymAssign(st, BitAnd(packedBuffer[st.pp], 15))
  ELSE st

unpack4(symbolBuffer, packedBuffer, symbolCount) ==
  LET limit == symbolCount \div 2
  IN  unpack4Tail(unpack4Loop(UnpackStart(symbolBuffer), packedBuffer, 0, limit),
                  packedBuffer, symbolCount, limit)

\* ---------------------------------------------------------------- unpack8
RECURSIVE unpack8Loop(_, _, _, _)
unpack8Loop(st, packedBuffer, i, symbolCount) ==
  IF i = symbolCount THEN st
  ELSE unpack8Loop([st EXCEPT !.s = [@ EXCEPT ![i] = packedBuffer[i]],
                              !.wr = @ \cup {i}],
                   packedBuffer, i + 1, symbolCount)

unpack8(symbolBuffer, packedBuffer, symbolCount) ==
  unpack8Loop(UnpackStart(symbolBuffer), packedBuffer, 0, symbolCount)

\* --------------------------------------------------------------- unpack12
unpack12Group(st, packedBuffer) ==
  LET a1 == PackedInc(SymAssign(st, packedBuffer[st.pp]))
      a2 == SymInc(SymOr(a1, Shl(BitAnd(packedBuffer[a1.pp], 15), 8)))
      a3 == PackedInc(SymAssign(a2, Shr(BitAnd(packedBuffer[a2.pp], 240), 4)))
      a4 == SymOr(a3, Shl(BitAnd(packedBuffer[a3.pp], 255), 4))
  IN  SymInc(PackedInc(a4))

RECURSIVE unpack12Loop(_, _, _, _)
unpack12Loop(st, packedBuffer, i, limit) ==
  IF i = limit THEN st
  ELSE unpack12Loop(unpack12Group(st, packedBuffer), packedBuffer, i + 1, limit)

\* unpack12Tail without the top four bits of the leftover symbol
unpack12TailLowOnly(st, packedBuffer, symbolCount, limit) ==
  IF limit * 2 # symbolCount
  THEN PackedInc(SymAssign(st, packedBuffer[st.pp]))
  ELSE st

unpack12Tail(st, packedBuffer, symbolCount, limit) ==
  IF limit * 2 # symbolCount
  THEN LET t1 == PackedInc(SymAssign(st, packedBuffer[st.pp]))
       IN  SymOr(t1, Shl(BitAnd(packedBuffer[t1.pp], 15), 8))
  ELSE st

unpack12(symbolBuffer, packedBuffer, symbolCount) ==
  LET limit == symbolCount \div 2
  IN  unpack12Tail(unpack12Loop(UnpackStart(symbolBuffer), packedBuffer, 0, limit),
                   packedBuffer, symbolCount, limit)

\* ----------------------------------------------------------------- unpack
\* The switch of BytePacker::unpack; it has no default branch.
unpack(bitCount, symbolBuffer, packedBuffer, symbolCount) ==
  CASE bitCount = 4  -> unpack4(symbolBuffer, packedBuffer, symbolCount)
    [] bitCount = 6  -> unpack6(symbolBuffer, packedBuffer, symbolCount)
    [] bitCount = 8  -> unpack8(symbolBuffer, packedBuffer, symbolCount)
    [] bitCount = 12 -> unpack12(symbolBuffer, packedBuffer, symbolCount)
    [] OTHER         -> UnpackStart(symbolBuffer)

\* =========================================================================
\* State
\* =========================================================================
VARIABLES
  \* --- one call sequence on BytePacker: the arguments ...
  bitCount,        \* bitCount argument of pack / unpack
  symbolCount,     \* symbolCount argument
  symbols,         \* the caller's input symbol array
  destPrior,       \* the caller's destination bytes before packing
  symPrior,        \* the caller's output symbol slots before unpacking
  \* ... and what each call left behind
  pc,              \* position of the caller in its call sequence
  viaPack,         \* run of pack(bitCount, ...)
  viaPackW,        \* run of the width-specific packW(...)
  viaUnpack,       \* run of unpack(bitCount, ...) on the packed bytes
  viaUnpackW,      \* run of the width-specific unpackW(...)
  viaOther,        \* run of unpack on a second buffer with the same leading bytes
  \* --- OffringaWeightColumn
  bitsPerSymbol,   \* _bitsPerSymbol
  shape,           \* _shape
  symbolsPerCell,  \* _symbolsPerCell
  encoder,         \* _encoder: 0 is the null pointer, else the quantization count
  packBuffer,      \* _packBuffer
  symbolBuffer,    \* _symbolBuffer
  dataCopyBuffer,  \* _dataCopyBuffer
  storage,         \* the rows held by the storage manager
  \* --- observation of the last column call
  lastOp,          \* name of the last call
  lastRow,         \* its rowNr argument
  lastData,        \* the array passed in (put) or handed back (get)
  thrown,          \* whether the last call threw
  everPut,         \* rows that have been written
  latest,          \* per row, the array most recently written
  packPrior        \* packBuffer as it was when the last call began

packerVars == <<bitCount, symbolCount, symbols, destPrior, symPrior, pc,
                viaPack, viaPackW, viaUnpack, viaUnpackW, viaOther>>
columnVars == <<bitsPerSymbol, shape, symbolsPerCell, encoder, packBuffer,
                symbolBuffer, dataCopyBuffer, storage>>
observeVars == <<lastOp, lastRow, lastData, thrown, everPut, latest, packPrior>>
vars == <<packerVars, columnVars, observeVars>>

\* ------------------------------------------------------------ input sets
Supported == {4, 6, 8, 12}
Unsupported == {0, 5, 16}

\* Sample symbols of a width: all bits clear, all bits set, and a pattern
\* whose bit fields differ from one another.
SymVals(w) == {0, Pow2(w) - 1, 2861 % Pow2(w)}

\* Sample prior contents of a byte
PriorBytes == {0, 165}
\* Sample contents of the bytes after the packed symbols in another buffer
OtherBytes == {90, 255}
\* Sample prior contents of a symbol slot
PriorSyms == {0, 9999}

DestCap == PackedSize(12, MaxCount) + 1
SymCap == MaxCount + 1
Filled(n, v) == [i \in 0 .. (n - 1) |-> v]

\* A buffer with the same first n bytes as buf and g in every later byte.
SameLeading(buf, n, g) == [i \in DOMAIN buf |-> IF i < n THEN buf[i] ELSE g]

\* ------------------------------------------------------ column: at rest
Empty == Filled(0, 0)

ColumnIdle ==
  /\ bitsPerSymbol = 0
  /\ shape = <<>>
  /\ symbolsPerCell = 0
  /\ encoder = 0
  /\ packBuffer = Empty
  /\ symbolBuffer = Empty
  /\ dataCopyBuffer = Empty
  /\ storage = Empty

ObserveInit ==
  /\ lastOp = "none"
  /\ lastRow = 0
  /\ lastData = Empty
  /\ thrown = FALSE
  /\ everPut = {}
  /\ latest = Empty
  /\ packPrior = Empty

\* =========================================================================
\* The packer's call sequence
\* =========================================================================
Init ==
  /\ bitCount \in Supported \cup Unsupported
  /\ symbolCount \in 0 .. MaxCount
  /\ symbols \in [0 .. (symbolCount - 1) -> SymVals(bitCount)]
  /\ \E b \in PriorBytes : destPrior = Filled(DestCap, b)
  /\ \E v \in PriorSyms : symPrior = Filled(SymCap, v)
  /\ pc = "start"
  /\ viaPack = PackStart(destPrior)
  /\ viaPackW = PackStart(destPrior)
  /\ viaUnpack = UnpackStart(symPrior)
  /\ viaUnpackW = UnpackStart(symPrior)
  /\ viaOther = UnpackStart(symPrior)
  /\ ColumnIdle
  /\ ObserveInit

\* BytePacker::pack(bitCount, dest, symbolBuffer, symbolCount)
Pack ==
  /\ pc = "start"
  /\ viaPack' = pack(bitCount, destPrior, symbols, symbolCount)
  /\ pc' = "packed"
  /\ UNCHANGED <<bitCount, symbolCount, symbols, destPrior, symPrior,
                 viaPackW, viaUnpack, viaUnpackW, viaOther>>
  /\ UNCHANGED <<columnVars, observeVars>>

PackWFrame ==
  /\ pc = "packed"
  /\ pc' = "packedW"
  /\ UNCHANGED <<bitCount, symbolCount, symbols, destPrior, symPrior,
                 viaPack, viaUnpack, viaUnpackW, viaOther>>
  /\ UNCHANGED <<columnVars, observeVars>>

\* The same arguments given to the function of the width directly.
Pack4 == bitCount = 4 /\ viaPackW' = pack4(destPrior, symbols, symbolCount) /\ PackWFrame
Pack6 == bitCount = 6 /\ viaPackW' = pack6(destPrior, symbols, symbolCount) /\ PackWFrame
Pack8 == bitCount = 8 /\ viaPackW' = pack8(destPrior, symbols, symbolCount) /\ PackWFrame
Pack12 == bitCount = 12 /\ viaPackW' = pack12(destPrior, symbols, symbolCount) /\ PackWFrame

\* BytePacker::unpack(bitCount, symbolBuffer, packedBuffer, symbolCount) on
\* the bytes the width-specific function left in the destination (the
\* untouched destination when there is no function of that width).
Unpack ==
  /\ \/ pc = "packedW"
     \/ pc = "packed" /\ bitCount \notin Supported
  /\ viaUnpack' = unpack(bitCount, symPrior, viaPackW.d, symbolCount)
  /\ pc' = "unpacked"
  /\ UNCHANGED <<bitCount, symbolCount, symbols, destPrior, symPrior,
                 viaPack, viaPackW, viaUnpackW, viaOther>>
  /\ UNCHANGED <<columnVars, observeVars>>

UnpackWFrame ==
  /\ pc = "unpacked"
  /\ pc' = "unpackedW"
  /\ UNCHANGED <<bitCount, symbolCount, symbols, destPrior, symPrior,
                 viaPack, viaPackW, viaUnpack, viaOther>>
  /\ UNCHANGED <<columnVars, observeVars>>

Unpack4 == bitCount = 4 /\ viaUnpackW' = unpack4(symPrior, viaPackW.d, symbolCount) /\ UnpackWFrame
Unpack6 == bitCount = 6 /\ viaUnpackW' = unpack6(symPrior, viaPackW.d, symbolCount) /\ UnpackWFrame
Unpack8 == bitCount = 8 /\ viaUnpackW' = unpack8(symPrior, viaPackW.d, symbolCount) /\ UnpackWFrame
Unpack12 == bitCount = 12 /\ viaUnpackW' = unpack12(symPrior, viaPackW.d, symbolCount) /\ UnpackWFrame

\* unpack on another buffer that holds the same first
\* ceil(symbolCount*bitCount/8) bytes and something else after them.
UnpackOther ==
  /\ \/ pc = "unpackedW"
     \/ pc = "unpacked" /\ bitCount \notin Supported
  /\ \E g \in OtherBytes :
       viaOther' = unpack(bitCount, symPrior,
                          SameLeading(viaPackW.d, PackedSize(bitCount, symbolCount), g),
                          symbolCount)
  /\ pc' = "done"
  /\ UNCHANGED <<bitCount, symbolCount, symbols, destPrior, symPrior,
                 viaPack, viaPackW, viaUnpack, viaUnpackW>>
  /\ UNCHANGED <<columnVars, observeVars>>

Next ==
  \/ Pack
  \/ Pack4 \/ Pack6 \/ Pack8 \/ Pack12
  \/ Unpack
  \/ Unpack4 \/ Unpack6 \/ Unpack8 \/ Unpack12
  \/ UnpackOther

Spec == Init /\ [][Next]_vars

\* =========================================================================
\* Properties of the packer
\* =========================================================================
Bit(v, j) == (v \div Pow2(j)) % 2
Packed == pc \in {"packedW", "unpacked", "unpackedW", "done"} /\ bitCount \in Supported
Unpacked == pc \in {"unpackedW", "done"} /\ bitCount \in Supported

\* C1: for a supported width and in-range symbols, packW followed by unpackW
\* with the same count gives back exactly the symbols that were packed.
C1_RoundTrip ==
  Unpacked => \A i \in 0 .. (symbolCount - 1) : viaUnpackW.s[i] = symbols[i]

C1_Witness ==
  /\ Unpacked
  /\ bitCount = 6
  /\ symbolCount = 3
  /\ \A i \in 0 .. 2 : symbols[i] = 45

C3_BitLayout ==
  Packed =>
    /\ \A i \in 0 .. (symbolCount - 1) : \A j \in 0 .. (bitCount - 1) :
         Bit(viaPackW.d[(i * bitCount + j) \div 8], (i * bitCount + j) % 8)
           = Bit(symbols[i], j)
    /\ (bitCount = 6 /\ symbolCount >= 4) =>
         /\ viaPackW.d[0] = symbols[0] + 64 * (symbols[1] % 4)
         /\ viaPackW.d[1] = ((symbols[1] \div 4) % 16) + 16 * (symbols[2] % 16)
         /\ viaPackW.d[2] = ((symbols[2] \div 16) % 4) + 4 * symbols[3]
    /\ (bitCount = 12 /\ symbolCount >= 2) =>
         /\ viaPackW.d[0] = symbols[0] % 256
         /\ viaPackW.d[1] = ((symbols[0] \div 256) % 16) + 16 * (symbols[1] % 16)
         /\ viaPackW.d[2] = (symbols[1] \div 16) % 256

C3_Witness ==
  /\ Packed
  /\ bitCount = 6
  /\ symbolCount = 5
  /\ symbols[0] = 45 /\ symbols[1] = 45 /\ symbols[2] = 63 /\ symbols[3] = 45
  /\ viaPackW.d[0] = 109

\* C4: unpackW stores to the symbol slots 0 .. symbolCount-1 and to no
\* others, later slots keep their prior value, and two packed buffers with
\* the same first ceil(symbolCount*w/8) bytes unpack to the same symbols.
C4_UnpackSize ==
  /\ Unpacked =>
       /\ viaUnpackW.wr = 0 .. (symbolCount - 1)
       /\ \A i \in DOMAIN symPrior : i >= symbolCount => viaUnpackW.s[i] = symPrior[i]
  /\ (pc = "done" /\ bitCount \in Supported) => viaOther.s = viaUnpackW.s

C4_Witness ==
  /\ pc = "done"
  /\ bitCount = 12
  /\ symbolCount = 3
  /\ symPrior[0] = 9999
  /\ symbols[2] = 4095
  /\ viaOther.s[2] = 4095

\* C5 as stated: with an odd symbolCount, pack4 and pack12 leave the upper
\* nibble of the final destination byte at the value it had before the call.
C5_UpperNibbleKept ==
  (Packed /\ bitCount \in {4, 12} /\ symbolCount % 2 = 1) =>
    LET last == PackedSize(bitCount, symbolCount) - 1
    IN  viaPackW.d[last] \div 16 = destPrior[last] \div 16

\* C5 amended: with an odd symbolCount, pack4 and pack12 store the whole
\* final destination byte; its lower nibble holds the leftover symbol's top
\* four bits (pack12) or the symbol (pack4) and its upper nibble is zero.
C5_UpperNibbleCleared ==
  (Packed /\ bitCount \in {4, 12} /\ symbolCount % 2 = 1) =>
    LET last == PackedSize(bitCount, symbolCount) - 1
    IN  /\ last \in viaPackW.wr
        /\ viaPackW.d[last] = (symbols[symbolCount - 1] \div Pow2(bitCount - 4)) % 16

C5_Witness ==
  /\ Packed
  /\ bitCount = 4
  /\ symbolCount = 3
  /\ destPrior[1] = 165
  /\ symbols[2] = 13
  /\ viaPackW.d[1] = 13

\* C8: for a bitCount outside {4,6,8,12}, pack leaves every destination
\* byte unchanged and unpack leaves every symbol slot unchanged.
C8_UnsupportedNoOp ==
  bitCount \notin Supported =>
    /\ pc # "start" => viaPack.d = destPrior /\ viaPack.wr = {}
    /\ pc \in {"unpacked", "done"} => viaUnpack.s = symPrior /\ viaUnpack.wr = {}

C8_Witness ==
  /\ bitCount = 5
  /\ symbolCount = 3
  /\ pc = "unpacked"
  /\ symbols[0] = 31
  /\ destPrior[0] = 165
  /\ symPrior[0] = 9999

\* C9: for a supported width, pack(w, ...) leaves the destination exactly as
\* packW(...) does from the same starting bytes, and unpack(w, ...) leaves
\* the symbol slots exactly as unpackW(...) does.
C9_DispatchEquivalence ==
  /\ Packed => viaPack.d = viaPackW.d
  /\ Unpacked => viaUnpack.s = viaUnpackW.s

C9_Witness ==
  /\ Unpacked
  /\ bitCount = 6
  /\ symbolCount = 5
  /\ symbols[4] = 45
  /\ viaPack.d[3] = 45
  /\ viaUnpack.s[4] = 45

\* =========================================================================
\* OffringaWeightColumn
\* =========================================================================
Rows == 0 .. (MaxRow - 1)

\* Cell shapes of the column
Shapes == {<<n>> : n \in 1 .. MaxDim} \cup {<<2, MaxDim - 1>>}

RECURSIVE Product(_)
Product(sh) == IF sh = <<>> THEN 1 ELSE Head(sh) * Product(Tail(sh))

\* Stride(): sizeof(float) + ceil(symbolsPerCell * bitsPerSymbol / 8)
Stride(bits, cellSize) == 4 + PackedSize(bits, cellSize)

\* std::vector::resize: kept elements stay, new ones are value-initialised
Resize(buf, n) == [i \in 0 .. (n - 1) |-> IF i \in DOMAIN buf THEN buf[i] ELSE 0]

\* packBuffer + sizeof(float): the bytes after the scale
Payload(buf) == [i \in 0 .. (Cardinality(DOMAIN buf) - 5) |-> buf[i + 4]]

\* the scale followed by the payload bytes
WithScale(scale, payload) ==
  [i \in 0 .. (Cardinality(DOMAIN payload) + 3) |->
     IF i < 4 THEN scale[i] ELSE payload[i - 4]]

\* The lossless encoder at this layer: the scale is 1.0f (little endian)
\* and every value is its own symbol.
ScaleOne == [i \in 0 .. 3 |-> IF i = 2 THEN 128 ELSE IF i = 3 THEN 63 ELSE 0]
Encode(data) == [scale |-> ScaleOne, symbols |-> data]
Decode(scale, syms) == syms

\* Arrays a caller writes: every value fits the symbol width.
DataSamples(w, n) ==
  { [i \in 0 .. (n - 1) |-> Pow2(w) - 1],
    [i \in 0 .. (n - 1) |-> IF i % 2 = 0 THEN 2861 % Pow2(w) ELSE Pow2(w) - 1],
    [i \in 0 .. (n - 1) |-> IF i % 3 = 0 THEN 1 ELSE IF i % 3 = 1 THEN 0 ELSE 2861 % Pow2(w)] }

PackerIdle ==
  /\ bitCount = 0
  /\ symbolCount = 0
  /\ symbols = Empty
  /\ destPrior = Empty
  /\ symPrior = Empty
  /\ pc = "idle"
  /\ viaPack = PackStart(Empty)
  /\ viaPackW = PackStart(Empty)
  /\ viaUnpack = UnpackStart(Empty)
  /\ viaUnpackW = UnpackStart(Empty)
  /\ viaOther = UnpackStart(Empty)

\* OffringaWeightColumn::setShapeColumn
setShapeColumn ==
  /\ \E sh \in Shapes : shape' = sh
  /\ lastOp' = "setShapeColumn"
  /\ thrown' = FALSE
  /\ UNCHANGED <<bitsPerSymbol, symbolsPerCell, encoder, packBuffer,
                 symbolBuffer, dataCopyBuffer, storage>>
  /\ UNCHANGED <<lastRow, lastData, everPut, latest, packPrior>>
  /\ UNCHANGED packerVars

\* The column's bits-per-symbol setting is changed.
SetBitsPerSymbol ==
  /\ \E b \in Supported \cup Unsupported : bitsPerSymbol' = b
  /\ lastOp' = "SetBitsPerSymbol"
  /\ thrown' = FALSE
  /\ UNCHANGED <<shape, symbolsPerCell, encoder, packBuffer,
                 symbolBuffer, dataCopyBuffer, storage>>
  /\ UNCHANGED <<lastRow, lastData, everPut, latest, packPrior>>
  /\ UNCHANGED packerVars

\* Prepare deleting the encoder before it checks bitsPerSymbol
PrepareChecksLate ==
  /\ lastOp' = "Prepare"
  /\ packPrior' = packBuffer
  /\ IF bitsPerSymbol = 0
     THEN /\ thrown' = TRUE
          /\ encoder' = 0
          /\ UNCHANGED <<symbolsPerCell, packBuffer, symbolBuffer, dataCopyBuffer>>
     ELSE /\ thrown' = FALSE
          /\ encoder' = Pow2(bitsPerSymbol)
          /\ symbolsPerCell' = Product(shape)
          /\ \E g \in PriorBytes :
               packBuffer' = Filled(Stride(bitsPerSymbol, symbolsPerCell'), g)
          /\ symbolBuffer' = Resize(symbolBuffer, symbolsPerCell')
          /\ dataCopyBuffer' = Resize(dataCopyBuffer, symbolsPerCell')
  /\ UNCHANGED <<bitsPerSymbol, shape, storage>>
  /\ UNCHANGED <<lastRow, lastData, everPut, latest>>
  /\ UNCHANGED packerVars

\* OffringaWeightColumn::Prepare.  new unsigned char[] hands out memory
\* with indeterminate contents.
Prepare ==
  /\ lastOp' = "Prepare"
  /\ packPrior' = packBuffer
  /\ IF bitsPerSymbol = 0
     THEN /\ thrown' = TRUE
          /\ UNCHANGED <<symbolsPerCell, encoder, packBuffer, symbolBuffer,
                         dataCopyBuffer>>
     ELSE /\ thrown' = FALSE
          /\ encoder' = Pow2(bitsPerSymbol)
          /\ symbolsPerCell' = Product(shape)
          /\ \E g \in PriorBytes :
               packBuffer' = Filled(Stride(bitsPerSymbol, symbolsPerCell'), g)
          /\ symbolBuffer' = Resize(symbolBuffer, symbolsPerCell')
          /\ dataCopyBuffer' = Resize(dataCopyBuffer, symbolsPerCell')
  /\ UNCHANGED <<bitsPerSymbol, shape, storage>>
  /\ UNCHANGED <<lastRow, lastData, everPut, latest>>
  /\ UNCHANGED packerVars

\* getArrayfloatV unpacking the pack buffer before the row is read into it
getArrayfloatVStale ==
  /\ encoder # 0
  /\ \E rowNr \in Rows :
       LET read == storage[rowNr]
           un == unpack(bitsPerSymbol, symbolBuffer, Payload(packBuffer), symbolsPerCell)
           values == Decode([i \in 0 .. 3 |-> read[i]], un.s)
       IN  /\ packBuffer' = read
           /\ symbolBuffer' = un.s
           /\ dataCopyBuffer' = values
           /\ lastData' = values
           /\ lastRow' = rowNr
  /\ lastOp' = "get"
  /\ thrown' = FALSE
  /\ packPrior' = packBuffer
  /\ UNCHANGED <<bitsPerSymbol, shape, symbolsPerCell, encoder, storage>>
  /\ UNCHANGED <<everPut, latest>>
  /\ UNCHANGED packerVars

\* OffringaWeightColumn::getArrayfloatV
getArrayfloatV ==
  /\ encoder # 0
  /\ \E rowNr \in Rows :
       LET read == storage[rowNr]
           un == unpack(bitsPerSymbol, symbolBuffer, Payload(read), symbolsPerCell)
           values == Decode([i \in 0 .. 3 |-> read[i]], un.s)
       IN  /\ packBuffer' = read
           /\ symbolBuffer' = un.s
           /\ dataCopyBuffer' = values
           /\ lastData' = values
           /\ lastRow' = rowNr
  /\ lastOp' = "get"
  /\ thrown' = FALSE
  /\ packPrior' = packBuffer
  /\ UNCHANGED <<bitsPerSymbol, shape, symbolsPerCell, encoder, storage>>
  /\ UNCHANGED <<everPut, latest>>
  /\ UNCHANGED packerVars

\* OffringaWeightColumn::putArrayfloatV
putArrayfloatV ==
  /\ encoder # 0
  /\ \E rowNr \in Rows : \E data \in DataSamples(bitsPerSymbol, symbolsPerCell) :
       LET enc == Encode(data)
           pk == pack(bitsPerSymbol, Payload(packBuffer), enc.symbols, symbolsPerCell)
           written == WithScale(enc.scale, pk.d)
       IN  /\ dataCopyBuffer' = data
           /\ symbolBuffer' = enc.symbols
           /\ packBuffer' = written
           /\ storage' = [storage EXCEPT ![rowNr] = written]
           /\ lastData' = data
           /\ lastRow' = rowNr
           /\ everPut' = everPut \cup {rowNr}
           /\ latest' = [latest EXCEPT ![rowNr] = data]
  /\ lastOp' = "put"
  /\ thrown' = FALSE
  /\ packPrior' = packBuffer
  /\ UNCHANGED <<bitsPerSymbol, shape, symbolsPerCell, encoder>>
  /\ UNCHANGED packerVars

\* A column of a supported width and a fixed shape over zeroed rows.
CellInit ==
  /\ PackerIdle
  /\ bitsPerSymbol \in Supported
  /\ shape \in Shapes
  /\ symbolsPerCell = 0
  /\ encoder = 0
  /\ packBuffer = Empty
  /\ symbolBuffer = Empty
  /\ dataCopyBuffer = Empty
  /\ storage = [r \in Rows |-> Filled(Stride(bitsPerSymbol, Product(shape)), 0)]
  /\ lastOp = "none"
  /\ lastRow = 0
  /\ lastData = Empty
  /\ thrown = FALSE
  /\ everPut = {}
  /\ latest = [r \in Rows |-> Empty]
  /\ packPrior = Empty

CellNext == Prepare \/ getArrayfloatV \/ putArrayfloatV

CellSpec == CellInit /\ [][CellNext]_vars

\* A column whose shape and bits per symbol change between Prepare calls.
PrepareInit ==
  /\ PackerIdle
  /\ ColumnIdle
  /\ ObserveInit

PrepareNext == setShapeColumn \/ SetBitsPerSymbol \/ Prepare

PrepareSpec == PrepareInit /\ [][PrepareNext]_vars

\* =========================================================================
\* Properties of the column
\* =========================================================================
\* The reference bit stream: bit p of the payload is bit (p mod w) of value
\* (p div w), and clear past the last value.
RefBit(w, data, n, p) == IF p \div w < n THEN Bit(data[p \div w], p % w) ELSE 0

RECURSIVE RefByte(_, _, _, _, _)
RefByte(w, data, n, k, b) ==
  IF b = 8 THEN 0
  ELSE RefBit(w, data, n, 8 * k + b) * Pow2(b) + RefByte(w, data, n, k, b + 1)

RefPayload(w, data, n) ==
  [k \in 0 .. (PackedSize(w, n) - 1) |-> RefByte(w, data, n, k, 0)]

\* C6: after any sequence of Prepare, putArrayfloatV and getArrayfloatV calls
\* that begins with Prepare, with the lossless encoder, a supported width
\* and a fixed shape, getArrayfloatV(r) hands back the array most recently
\* written to row r.
C6_CellRoundTrip ==
  (lastOp = "get" /\ lastRow \in everPut) => lastData = latest[lastRow]

C6_Witness ==
  /\ lastOp = "get"
  /\ lastRow = 0
  /\ everPut = Rows
  /\ latest[0] # latest[1]
  /\ lastData = latest[0]
  /\ packPrior = storage[1]
  /\ bitsPerSymbol = 6
  /\ symbolsPerCell = 3

\* C7: Prepare throws exactly when bitsPerSymbol is 0, and a Prepare that
\* throws leaves the encoder, symbolsPerCell, the pack buffer, the symbol
\* buffer and the float scratch buffer as they were.
C7_PrepareError ==
  [][lastOp' = "Prepare" =>
       /\ thrown' <=> (bitsPerSymbol = 0)
       /\ bitsPerSymbol = 0 =>
            UNCHANGED <<encoder, symbolsPerCell, packBuffer, symbolBuffer,
                        dataCopyBuffer>>]_vars

C7_Witness ==
  /\ lastOp = "Prepare"
  /\ thrown
  /\ bitsPerSymbol = 0
  /\ encoder = 64
  /\ symbolsPerCell = 3
  /\ packBuffer = Filled(7, 165)

\* C10: the buffer putArrayfloatV hands to storage has the stride's length
\* and is the scale followed by the reference bit stream of the symbols,
\* padding bits clear, whatever the pack buffer held before the call.
C10_NoStaleData ==
  lastOp = "put" =>
    /\ DOMAIN storage[lastRow] = 0 .. (Stride(bitsPerSymbol, symbolsPerCell) - 1)
    /\ storage[lastRow] =
         WithScale(ScaleOne, RefPayload(bitsPerSymbol, lastData, symbolsPerCell))

C10_Witness ==
  /\ lastOp = "put"
  /\ bitsPerSymbol = 4
  /\ symbolsPerCell = 3
  /\ packPrior = Filled(6, 165)
  /\ lastData[2] = 15
  /\ storage[lastRow][5] = 15

====
